---- MODULE Spec2Model ----
(***************************************************************************)
(* go-unit-service: the Unit entity (versioning, soft deletion, ownership)  *)
(* and the two service layers over an injected Repository: UseCase         *)
(* (package unitUseCase) and Service (package unit).                       *)
(*                                                                         *)
(* Timestamps are naturals, 0 being the zero time.Time; uuids are          *)
(* naturals, 0 being uuid.Nil; strings are sequences of characters, so     *)
(* that strings.Contains is computed.  An error value is a record          *)
(* [fail, msg, chain]: chain holds what errors.Is / errors.As can find in  *)
(* it (sentinels, validator field errors, the repository's error).         *)
(***************************************************************************)
EXTENDS Integers, Sequences, FiniteSets, TLC

\* ---------------------------------------------------------------- bounds
MaxUnits == 1
MaxUser == 2
MaxTime == 2
MaxMutations == 3
MaxReqs == 2

\* ------------------------------------------------------- library values
NilUUID == 0
ZeroTime == 0

UserIDs == 0..MaxUser
UnitIDs == 0..MaxUnits
Names == {<<>>, <<"a">>, <<"a", "b">>}
Substrings == {<<>>, <<"a">>, <<"b">>}

None == [isPresent |-> FALSE, value |-> 0]
NoneString == [isPresent |-> FALSE, value |-> <<>>]
Some(v) == [isPresent |-> TRUE, value |-> v]

OptionUserIDs == {None} \cup {Some(u) : u \in UserIDs}
OptionSubstrings == {NoneString} \cup {Some(s) : s \in Substrings}

\* strings.Contains(s, substr)
Contains(s, substr) ==
    \E i \in 0..(Len(s) - Len(substr)) :
        \A j \in 1..Len(substr) : s[i + j] = substr[j]

\* ---------------------------------------------------------------- errors
NilErr == [fail |-> FALSE, msg |-> <<>>, chain |-> {}]

ErrorsNew(ident, text) == [fail |-> TRUE, msg |-> <<text>>, chain |-> {ident}]

\* fmt.Errorf(text) with no %w verb: a fresh error that wraps nothing.
Errorf(text) == [fail |-> TRUE, msg |-> <<text>>, chain |-> {}]

\* fmt.Errorf(text + ": %w", err)
ErrorfW(text, err) == [fail |-> TRUE, msg |-> <<text>> \o err.msg, chain |-> err.chain]

\* errors.Join(a, b)
Join(a, b) == [fail |-> TRUE, msg |-> a.msg \o b.msg, chain |-> a.chain \cup b.chain]

ErrBadParams == ErrorsNew("unitUseCase.ErrBadParams", "bad params")
ErrUserIDMismatch == ErrorsNew("unitUseCase.ErrUserIDMismatch", "unit user id does not match")
ErrUserIDMissing == ErrorsNew("unitUseCase.ErrUserIDMissing", "unit user id is missing")
ServiceErrUserIDMismatch == ErrorsNew("unit.ErrUserIDMismatch", "unit user id does not match")
ServiceErrUserIDMissing == ErrorsNew("unit.ErrUserIDMissing", "unit user id is missing")

\* What a failing Repository method returns.
RepoErr == ErrorsNew("repository.error", "repository failure")

\* ---------------------------------------------------------------- entity
ZeroUnit ==
    [ID |-> NilUUID, Version |-> 0, CreatedAt |-> ZeroTime, UpdatedAt |-> ZeroTime,
     DeletedAt |-> None, UserID |-> None, Name |-> <<>>]

\* New without the Version field set: it keeps Go's zero value.
NewNoVersion(userID, name, id, t) ==
    [ID |-> id, Version |-> 0, CreatedAt |-> t, UpdatedAt |-> t,
     DeletedAt |-> None, UserID |-> userID, Name |-> name]

\* package unit (internal/entities/unit/unit.go)
New(userID, name, id, t) ==
    [ID |-> id, Version |-> 1, CreatedAt |-> t, UpdatedAt |-> t,
     DeletedAt |-> None, UserID |-> userID, Name |-> name]

\* package unitEntity
unitEntityNew(userID, name, id, t) ==
    [ID |-> id, Version |-> 1, CreatedAt |-> t, UpdatedAt |-> t,
     DeletedAt |-> None, UserID |-> userID, Name |-> name]

\* The struct tags of Unit, as validator.Struct applies them: per field the
\* first failing tag.  The two mo.Option fields hold unexported fields only,
\* so the validator finds nothing to check in them.
StructErrors(u) ==
    (IF u.ID = NilUUID THEN {"ID:required"} ELSE {})
    \cup (IF u.Version = 0 THEN {"Version:required"}
          ELSE IF ~(u.Version > 0) THEN {"Version:gt"} ELSE {})
    \cup (IF u.CreatedAt = ZeroTime THEN {"CreatedAt:required"} ELSE {})
    \cup (IF u.UpdatedAt = ZeroTime THEN {"UpdatedAt:required"}
          ELSE IF ~(u.UpdatedAt >= u.CreatedAt) THEN {"UpdatedAt:gtecsfield"} ELSE {})
    \cup (IF u.Name = <<>> THEN {"Name:required"} ELSE {})

ValidationErrors(fields) ==
    [fail |-> TRUE, msg |-> <<"validation failed">>, chain |-> fields]

\* package unit: Unit.Validate
Validate(u) ==
    IF StructErrors(u) = {} THEN NilErr ELSE ValidationErrors(StructErrors(u))

\* package unitEntity: Unit.Validate
unitEntityValidate(u) ==
    IF StructErrors(u) # {}
    THEN ErrorfW("validate unit", ValidationErrors(StructErrors(u)))
    ELSE IF u.DeletedAt.isPresent /\ u.DeletedAt.value = ZeroTime
    THEN Errorf("validate unit deleted at: value is zero")
    ELSE IF u.UserID.isPresent /\ u.UserID.value = NilUUID
    THEN Errorf("validate unit user id: value is zero")
    ELSE NilErr

\* A Touch that leaves the version alone.
TouchKeepVersion(u, t) == [u EXCEPT !.UpdatedAt = t]

\* Unit.Touch (the receiver is never nil in this program: every call is on
\* an addressable local)
Touch(u, t) == [u EXCEPT !.Version = @ + 1, !.UpdatedAt = t]

\* MarkDeleted that counts as a mutation: it bumps the version as Touch does.
MarkDeletedTouch(u, t) ==
    [u EXCEPT !.Version = @ + 1, !.UpdatedAt = t, !.DeletedAt = Some(t)]

\* MarkDeleted that leaves UpdatedAt alone.
MarkDeletedOnly(u, t) == [u EXCEPT !.DeletedAt = Some(t)]

\* Unit.MarkDeleted
MarkDeleted(u, t) == [u EXCEPT !.UpdatedAt = t, !.DeletedAt = Some(t)]

\* The entity package a build links behind the import path
\* go-unit-service/internal/entities/unit: package unit or package unitEntity.
EntityPkgs == {"unit", "unitEntity"}
EntityNew(pkg, userID, name, id, t) ==
    IF pkg = "unit" THEN New(userID, name, id, t) ELSE unitEntityNew(userID, name, id, t)
EntityValidate(pkg, u) ==
    IF pkg = "unit" THEN Validate(u) ELSE unitEntityValidate(u)

\* ------------------------------------------------------------ repository
\* The Repository behind the interface is an external collaborator: a table
\* of units keyed by id.  Every call may fail (mode "err"); a by-ids fetch
\* may also answer with a row twice (mode "dup"), the ambiguous lookup the
\* use case guards against.
FetchModes == {"ok", "err", "dup"}
CallModes == {"ok", "err"}

Call(method, ids, userID, substring, unit, units, err) ==
    [method |-> method, ids |-> ids, userID |-> userID, substring |-> substring,
     unit |-> unit, units |-> units, err |-> err]

RECURSIVE Rows(_, _)
Rows(st, ids) ==
    IF ids = <<>> THEN <<>>
    ELSE (IF Head(ids) \in DOMAIN st THEN <<st[Head(ids)]>> ELSE <<>>) \o Rows(st, Tail(ids))

\* The stored units with id <= n, in id order.
RECURSIVE Scan(_, _)
Scan(st, n) ==
    IF n = 0 THEN <<>>
    ELSE Scan(st, n - 1) \o (IF n \in DOMAIN st THEN <<st[n]>> ELSE <<>>)

RepoGetByIDs(st, ids, mode) ==
    IF mode = "err" THEN [units |-> <<>>, err |-> RepoErr]
    ELSE IF mode = "dup" THEN [units |-> Rows(st, ids) \o Rows(st, ids), err |-> NilErr]
    ELSE [units |-> Rows(st, ids), err |-> NilErr]

RepoGetAll(st, userID, substring, mode) ==
    LET keep(u) == /\ u.UserID = Some(userID)
                   /\ substring.isPresent => Contains(u.Name, substring.value)
    IN IF mode = "err" THEN [units |-> <<>>, err |-> RepoErr]
       ELSE [units |-> SelectSeq(Scan(st, MaxUnits), keep), err |-> NilErr]

RepoCreate(st, unit, mode) ==
    IF mode = "err" THEN [store |-> st, err |-> RepoErr]
    ELSE [store |-> [i \in DOMAIN st \cup {unit.ID} |-> IF i = unit.ID THEN unit ELSE st[i]],
          err |-> NilErr]

RepoUpdate(st, unit, mode) ==
    IF mode = "err" THEN [store |-> st, err |-> RepoErr]
    ELSE [store |-> [i \in DOMAIN st |-> IF i = unit.ID THEN unit ELSE st[i]],
          err |-> NilErr]

\* The Repository of package unit (Service): GetByID answers one unit or an
\* error (an unknown id is an error), GetAll answers every unit.
ServiceRepoGetByID(st, id, mode) ==
    IF mode = "err" \/ id \notin DOMAIN st THEN [unit |-> ZeroUnit, err |-> RepoErr]
    ELSE [unit |-> st[id], err |-> NilErr]

ServiceRepoGetAll(st, mode) ==
    LET keep(u) == TRUE
    IN IF mode = "err" THEN [units |-> <<>>, err |-> RepoErr]
       ELSE [units |-> SelectSeq(Scan(st, MaxUnits), keep), err |-> NilErr]

\* ------------------------------------------------ use case (unitUseCase)
\* What one call of a handler yields: its return values, the repository
\* calls it made, in order, and the table they leave.
Out(err, unit, units, calls, st) ==
    [err |-> err, unit |-> unit, units |-> units, calls |-> calls, store |-> st]

NoIDs == <<>>
NoUnits == <<>>

\* GetByIDs without its guard on the empty list.
UseCaseGetByIDsNoGuard(st, ids, m1) ==
    LET r == RepoGetByIDs(st, ids, m1)
        c1 == Call("GetByIDs", ids, None, NoneString, ZeroUnit, r.units, r.err)
    IN IF r.err.fail
       THEN Out(ErrorfW("get units by ids", r.err), ZeroUnit, NoUnits, <<c1>>, st)
       ELSE Out(NilErr, ZeroUnit, r.units, <<c1>>, st)

\* UseCase.GetByIDs
UseCaseGetByIDs(st, ids, m1) ==
    IF Len(ids) = 0
    THEN Out(Join(ErrBadParams, Errorf("ids must not be empty")), ZeroUnit, NoUnits, <<>>, st)
    ELSE LET r == RepoGetByIDs(st, ids, m1)
             c1 == Call("GetByIDs", ids, None, NoneString, ZeroUnit, r.units, r.err)
         IN IF r.err.fail
            THEN Out(ErrorfW("get units by ids", r.err), ZeroUnit, NoUnits, <<c1>>, st)
            ELSE Out(NilErr, ZeroUnit, r.units, <<c1>>, st)

\* GetAll that takes a present-but-empty filter for an absent one.
UseCaseGetAllNoGuard(st, userID, substring, m1) ==
    LET filter == IF substring.isPresent /\ substring.value = <<>> THEN NoneString
                  ELSE substring
        r == RepoGetAll(st, userID, filter, m1)
        c1 == Call("GetAll", NoIDs, Some(userID), filter, ZeroUnit, r.units, r.err)
    IN IF r.err.fail
       THEN Out(ErrorfW("get all units", r.err), ZeroUnit, NoUnits, <<c1>>, st)
       ELSE Out(NilErr, ZeroUnit, r.units, <<c1>>, st)

\* UseCase.GetAll
UseCaseGetAll(st, userID, substring, m1) ==
    IF substring.isPresent /\ substring.value = <<>>
    THEN Out(Join(ErrBadParams, Errorf("substring must not be empty when set")),
             ZeroUnit, NoUnits, <<>>, st)
    ELSE LET r == RepoGetAll(st, userID, substring, m1)
             c1 == Call("GetAll", NoIDs, Some(userID), substring, ZeroUnit, r.units, r.err)
         IN IF r.err.fail
            THEN Out(ErrorfW("get all units", r.err), ZeroUnit, NoUnits, <<c1>>, st)
            ELSE Out(NilErr, ZeroUnit, r.units, <<c1>>, st)

\* Create that persists first and validates afterwards.
UseCaseCreatePersistFirst(st, pkg, userID, name, id, t, m1) ==
    LET unit == EntityNew(pkg, Some(userID), name, id, t)
        verr == EntityValidate(pkg, unit)
        w == RepoCreate(st, unit, m1)
        c1 == Call("Create", NoIDs, None, NoneString, unit, NoUnits, w.err)
    IN IF w.err.fail
       THEN Out(ErrorfW("create unit", w.err), ZeroUnit, NoUnits, <<c1>>, w.store)
       ELSE IF verr.fail
       THEN Out(Join(ErrBadParams, ErrorfW("validate unit create", verr)),
                ZeroUnit, NoUnits, <<c1>>, w.store)
       ELSE Out(NilErr, unit, NoUnits, <<c1>>, w.store)

\* UseCase.Create
UseCaseCreate(st, pkg, userID, name, id, t, m1) ==
    LET unit == EntityNew(pkg, Some(userID), name, id, t)
        verr == EntityValidate(pkg, unit)
    IN IF verr.fail
       THEN Out(Join(ErrBadParams, ErrorfW("validate unit create", verr)),
                ZeroUnit, NoUnits, <<>>, st)
       ELSE LET w == RepoCreate(st, unit, m1)
                c1 == Call("Create", NoIDs, None, NoneString, unit, NoUnits, w.err)
            IN IF w.err.fail
               THEN Out(ErrorfW("create unit", w.err), ZeroUnit, NoUnits, <<c1>>, w.store)
               ELSE Out(NilErr, unit, NoUnits, <<c1>>, w.store)

\* The ownership checks without the comparison of the two user ids.
CheckOwnerNoMismatch(unit, userID) ==
    IF ~unit.UserID.isPresent THEN ErrUserIDMissing ELSE NilErr

\* The ownership checks with an absent owner let through.
CheckOwnerNoMissing(unit, userID) ==
    IF unit.UserID.isPresent /\ unit.UserID.value # userID THEN ErrUserIDMismatch
    ELSE NilErr

\* UseCase.Update, the two ownership checks on the fetched unit
CheckOwner(unit, userID) ==
    IF ~unit.UserID.isPresent THEN ErrUserIDMissing
    ELSE IF unit.UserID.value # userID THEN ErrUserIDMismatch
    ELSE NilErr

\* The update written as a fresh struct literal that copies the fields it
\* knows of and forgets DeletedAt.
ApplyUpdateLiteral(unit, name, t) ==
    [ID |-> unit.ID, Version |-> unit.Version + 1, CreatedAt |-> unit.CreatedAt,
     UpdatedAt |-> t, DeletedAt |-> None, UserID |-> unit.UserID, Name |-> name]

\* An Update that also restarts the creation time.
ApplyUpdateRecreate(unit, name, t) ==
    [Touch(unit, t) EXCEPT !.Name = name, !.CreatedAt = t]

\* UseCase.Update, the mutation of the fetched unit once the checks passed
ApplyUpdate(unit, name, t) == [Touch(unit, t) EXCEPT !.Name = name]

\* An Update that touches, renames and validates the fetched unit before it
\* looks at the owner.
UseCaseUpdateValidateFirst(st, pkg, id, userID, name, t, m1, m2) ==
    LET r == RepoGetByIDs(st, <<id>>, m1)
        c1 == Call("GetByIDs", <<id>>, None, NoneString, ZeroUnit, r.units, r.err)
    IN IF r.err.fail
       THEN Out(ErrorfW("get unit by id for update", r.err), ZeroUnit, NoUnits, <<c1>>, st)
       ELSE IF Len(r.units) # 1
       THEN Out(Errorf("get unit by id for update: expected 1 unit"),
                ZeroUnit, NoUnits, <<c1>>, st)
       ELSE LET unit == ApplyUpdate(r.units[1], name, t)
                verr == EntityValidate(pkg, unit)
            IN IF verr.fail
               THEN Out(Join(ErrBadParams, ErrorfW("validate unit update", verr)),
                        ZeroUnit, NoUnits, <<c1>>, st)
               ELSE IF CheckOwner(r.units[1], userID).fail
               THEN Out(CheckOwner(r.units[1], userID), ZeroUnit, NoUnits, <<c1>>, st)
               ELSE LET w == RepoUpdate(st, unit, m2)
                        c2 == Call("Update", NoIDs, None, NoneString, unit, NoUnits, w.err)
                    IN IF w.err.fail
                       THEN Out(ErrorfW("update unit", w.err),
                                ZeroUnit, NoUnits, <<c1, c2>>, w.store)
                       ELSE Out(NilErr, unit, NoUnits, <<c1, c2>>, w.store)

\* UseCase.Update
UseCaseUpdate(st, pkg, id, userID, name, t, m1, m2) ==
    LET r == RepoGetByIDs(st, <<id>>, m1)
        c1 == Call("GetByIDs", <<id>>, None, NoneString, ZeroUnit, r.units, r.err)
    IN IF r.err.fail
       THEN Out(ErrorfW("get unit by id for update", r.err), ZeroUnit, NoUnits, <<c1>>, st)
       ELSE IF Len(r.units) # 1
       THEN Out(Errorf("get unit by id for update: expected 1 unit"),
                ZeroUnit, NoUnits, <<c1>>, st)
       ELSE IF CheckOwner(r.units[1], userID).fail
       THEN Out(CheckOwner(r.units[1], userID), ZeroUnit, NoUnits, <<c1>>, st)
       ELSE LET unit == ApplyUpdate(r.units[1], name, t)
                verr == EntityValidate(pkg, unit)
            IN IF verr.fail
               THEN Out(Join(ErrBadParams, ErrorfW("validate unit update", verr)),
                        ZeroUnit, NoUnits, <<c1>>, st)
               ELSE LET w == RepoUpdate(st, unit, m2)
                        c2 == Call("Update", NoIDs, None, NoneString, unit, NoUnits, w.err)
                    IN IF w.err.fail
                       THEN Out(ErrorfW("update unit", w.err),
                                ZeroUnit, NoUnits, <<c1, c2>>, w.store)
                       ELSE Out(NilErr, unit, NoUnits, <<c1, c2>>, w.store)

\* A Delete that tries the repository Update a second time when it failed.
UseCaseDeleteRetry(st, id, t, m1, m2) ==
    LET r == RepoGetByIDs(st, <<id>>, m1)
        c1 == Call("GetByIDs", <<id>>, None, NoneString, ZeroUnit, r.units, r.err)
    IN IF r.err.fail
       THEN Out(ErrorfW("get unit by id for delete", r.err), ZeroUnit, NoUnits, <<c1>>, st)
       ELSE IF Len(r.units) # 1
       THEN Out(Errorf("get unit by id for delete: expected 1 unit"),
                ZeroUnit, NoUnits, <<c1>>, st)
       ELSE LET unit == MarkDeleted(r.units[1], t)
                w == RepoUpdate(st, unit, m2)
                c2 == Call("Update", NoIDs, None, NoneString, unit, NoUnits, w.err)
            IN IF w.err.fail
               THEN Out(ErrorfW("update unit for delete", w.err),
                        ZeroUnit, NoUnits, <<c1, c2, c2>>, w.store)
               ELSE Out(NilErr, unit, NoUnits, <<c1, c2>>, w.store)

\* A Delete that takes the first unit of any non-empty fetch result.
UseCaseDeleteFirst(st, id, t, m1, m2) ==
    LET r == RepoGetByIDs(st, <<id>>, m1)
        c1 == Call("GetByIDs", <<id>>, None, NoneString, ZeroUnit, r.units, r.err)
    IN IF r.err.fail
       THEN Out(ErrorfW("get unit by id for delete", r.err), ZeroUnit, NoUnits, <<c1>>, st)
       ELSE IF Len(r.units) = 0
       THEN Out(Errorf("get unit by id for delete: expected 1 unit"),
                ZeroUnit, NoUnits, <<c1>>, st)
       ELSE LET unit == MarkDeleted(r.units[1], t)
                w == RepoUpdate(st, unit, m2)
                c2 == Call("Update", NoIDs, None, NoneString, unit, NoUnits, w.err)
            IN IF w.err.fail
               THEN Out(ErrorfW("update unit for delete", w.err),
                        ZeroUnit, NoUnits, <<c1, c2>>, w.store)
               ELSE Out(NilErr, unit, NoUnits, <<c1, c2>>, w.store)

\* A Delete that reports success whatever the repository Update answered.
UseCaseDeleteSwallow(st, id, t, m1, m2) ==
    LET r == RepoGetByIDs(st, <<id>>, m1)
        c1 == Call("GetByIDs", <<id>>, None, NoneString, ZeroUnit, r.units, r.err)
    IN IF r.err.fail
       THEN Out(ErrorfW("get unit by id for delete", r.err), ZeroUnit, NoUnits, <<c1>>, st)
       ELSE IF Len(r.units) # 1
       THEN Out(Errorf("get unit by id for delete: expected 1 unit"),
                ZeroUnit, NoUnits, <<c1>>, st)
       ELSE LET unit == MarkDeleted(r.units[1], t)
                w == RepoUpdate(st, unit, m2)
                c2 == Call("Update", NoIDs, None, NoneString, unit, NoUnits, w.err)
            IN Out(NilErr, unit, NoUnits, <<c1, c2>>, w.store)

\* UseCase.Delete
UseCaseDelete(st, id, t, m1, m2) ==
    LET r == RepoGetByIDs(st, <<id>>, m1)
        c1 == Call("GetByIDs", <<id>>, None, NoneString, ZeroUnit, r.units, r.err)
    IN IF r.err.fail
       THEN Out(ErrorfW("get unit by id for delete", r.err), ZeroUnit, NoUnits, <<c1>>, st)
       ELSE IF Len(r.units) # 1
       THEN Out(Errorf("get unit by id for delete: expected 1 unit"),
                ZeroUnit, NoUnits, <<c1>>, st)
       ELSE LET unit == MarkDeleted(r.units[1], t)
                w == RepoUpdate(st, unit, m2)
                c2 == Call("Update", NoIDs, None, NoneString, unit, NoUnits, w.err)
            IN IF w.err.fail
               THEN Out(ErrorfW("update unit for delete", w.err),
                        ZeroUnit, NoUnits, <<c1, c2>>, w.store)
               ELSE Out(NilErr, unit, NoUnits, <<c1, c2>>, w.store)

\* ------------------------------------------------- service (package unit)
\* Service.GetByID
ServiceGetByID(st, id, m1) ==
    LET r == ServiceRepoGetByID(st, id, m1)
        c1 == Call("GetByID", <<id>>, None, NoneString, ZeroUnit,
                   IF r.err.fail THEN NoUnits ELSE <<r.unit>>, r.err)
    IN Out(r.err, r.unit, NoUnits, <<c1>>, st)

\* Service.GetAll
ServiceGetAll(st, m1) ==
    LET r == ServiceRepoGetAll(st, m1)
        c1 == Call("GetAll", NoIDs, None, NoneString, ZeroUnit, r.units, r.err)
    IN Out(r.err, ZeroUnit, r.units, <<c1>>, st)

\* Service.GetAllFiltered
ServiceGetAllFiltered(st, substring, m1) ==
    LET r == ServiceRepoGetAll(st, m1)
        c1 == Call("GetAll", NoIDs, None, NoneString, ZeroUnit, r.units, r.err)
        keep(u) == Contains(u.Name, substring)
    IN IF r.err.fail THEN Out(r.err, ZeroUnit, NoUnits, <<c1>>, st)
       ELSE IF substring = <<>> THEN Out(NilErr, ZeroUnit, r.units, <<c1>>, st)
       ELSE Out(NilErr, ZeroUnit, SelectSeq(r.units, keep), <<c1>>, st)

\* Service.Create
ServiceCreate(st, pkg, userID, name, id, t, m1) ==
    LET unit == EntityNew(pkg, userID, name, id, t)
        verr == EntityValidate(pkg, unit)
    IN IF verr.fail
       THEN Out(verr, ZeroUnit, NoUnits, <<>>, st)
       ELSE LET w == RepoCreate(st, unit, m1)
                c1 == Call("Create", NoIDs, None, NoneString, unit, NoUnits, w.err)
            IN IF w.err.fail
               THEN Out(w.err, ZeroUnit, NoUnits, <<c1>>, w.store)
               ELSE Out(NilErr, unit, NoUnits, <<c1>>, w.store)

\* Service.Update, the two ownership checks on the fetched unit
ServiceCheckOwner(unit, userID) ==
    IF ~unit.UserID.isPresent THEN ServiceErrUserIDMissing
    ELSE IF unit.UserID.value # userID THEN ServiceErrUserIDMismatch
    ELSE NilErr

\* Service.Update
ServiceUpdate(st, pkg, id, userID, name, t, m1, m2) ==
    LET r == ServiceRepoGetByID(st, id, m1)
        c1 == Call("GetByID", <<id>>, None, NoneString, ZeroUnit,
                   IF r.err.fail THEN NoUnits ELSE <<r.unit>>, r.err)
    IN IF r.err.fail
       THEN Out(r.err, ZeroUnit, NoUnits, <<c1>>, st)
       ELSE IF ServiceCheckOwner(r.unit, userID).fail
       THEN Out(ServiceCheckOwner(r.unit, userID), ZeroUnit, NoUnits, <<c1>>, st)
       ELSE LET unit == ApplyUpdate(r.unit, name, t)
                verr == EntityValidate(pkg, unit)
            IN IF verr.fail
               THEN Out(ErrorfW("validate unit update", verr), ZeroUnit, NoUnits, <<c1>>, st)
               ELSE LET w == RepoUpdate(st, unit, m2)
                        c2 == Call("Update", NoIDs, None, NoneString, unit, NoUnits, w.err)
                    IN IF w.err.fail
                       THEN Out(w.err, ZeroUnit, NoUnits, <<c1, c2>>, w.store)
                       ELSE Out(NilErr, unit, NoUnits, <<c1, c2>>, w.store)

\* Service.Delete
ServiceDelete(st, id, t, m1, m2) ==
    LET r == ServiceRepoGetByID(st, id, m1)
        c1 == Call("GetByID", <<id>>, None, NoneString, ZeroUnit,
                   IF r.err.fail THEN NoUnits ELSE <<r.unit>>, r.err)
    IN IF r.err.fail
       THEN Out(r.err, ZeroUnit, NoUnits, <<c1>>, st)
       ELSE LET unit == MarkDeleted(r.unit, t)
                w == RepoUpdate(st, unit, m2)
                c2 == Call("Update", NoIDs, None, NoneString, unit, NoUnits, w.err)
            IN IF w.err.fail
               THEN Out(w.err, ZeroUnit, NoUnits, <<c1, c2>>, w.store)
               ELSE Out(NilErr, unit, NoUnits, <<c1, c2>>, w.store)

\* ----------------------------------------------------------------- state
VARIABLES
    store,      \* the repository's table: unit id -> Unit
    now,        \* what time.Now() answers
    nextID,     \* what uuid.New() answers next
    entityPkg,  \* the entity package this build links
    hist,       \* per stored unit, the successful Updates and Deletes so far
    last,       \* the last call of a public operation: inputs, results, calls
    reqs        \* the requests in flight: each one's position, locals and result

vars == <<store, now, nextID, entityPkg, hist, last, reqs>>

Last(op, ids, id, userID, name, substring, out) ==
    [op |-> op, ids |-> ids, id |-> id, userID |-> userID, name |-> name,
     substring |-> substring, err |-> out.err, unit |-> out.unit,
     units |-> out.units, calls |-> out.calls, prior |-> ZeroUnit]

NoCall == Out(NilErr, ZeroUnit, NoUnits, <<>>, <<>>)

\* No call is in progress: the caller holds no unread result.
Idle == Last("none", NoIDs, NilUUID, None, <<>>, NoneString, NoCall)

IDLists == {<<>>} \cup {<<i>> : i \in UnitIDs} \cup {<<i, j>> : i \in UnitIDs, j \in UnitIDs}

\* A request in flight: the operation and its arguments, where the handler
\* stands (before its fetch, between its fetch and its write, returned), the
\* unit it fetched, the unit it is about to write or has returned, its
\* error, the repository's answer to its write and the rank of that write
\* among the writes of all requests (0 before it).
ReqIDs == 1..MaxReqs
NoReq ==
    [op |-> "none", pc |-> "new", id |-> NilUUID, userID |-> None, name |-> <<>>,
     fetched |-> ZeroUnit, unit |-> ZeroUnit, err |-> NilErr, werr |-> NilErr,
     rank |-> 0]

Init ==
    /\ store = <<>>
    /\ now = 1
    /\ nextID = 1
    /\ entityPkg \in EntityPkgs
    /\ hist = <<>>
    /\ last = Idle
    /\ reqs = [r \in ReqIDs |-> NoReq]

\* time passes between calls
Tick ==
    /\ last = Idle
    /\ now < MaxTime
    /\ now' = now + 1
    /\ UNCHANGED <<reqs, store, nextID, entityPkg, hist, last>>

\* The successful Updates and Deletes so far, over the units with id <= n.
RECURSIVE Mutations(_, _)
Mutations(h, n) ==
    IF n = 0 THEN 0
    ELSE Mutations(h, n - 1)
         + (IF n \in DOMAIN h THEN h[n].updates + h[n].deletes ELSE 0)

Created(out) ==
    /\ store' = out.store
    /\ nextID' = IF out.err.fail THEN nextID ELSE nextID + 1
    /\ hist' = IF out.err.fail THEN hist
               ELSE [i \in DOMAIN hist \cup {out.unit.ID} |->
                        IF i = out.unit.ID THEN [updates |-> 0, deletes |-> 0] ELSE hist[i]]

Updated(out) ==
    /\ ~out.err.fail => Mutations(hist, MaxUnits) < MaxMutations
    /\ store' = out.store
    /\ hist' = IF out.err.fail THEN hist
               ELSE [hist EXCEPT ![out.unit.ID].updates = @ + 1]
    /\ UNCHANGED nextID

Deleted(out) ==
    /\ ~out.err.fail => Mutations(hist, MaxUnits) < MaxMutations
    /\ store' = out.store
    /\ hist' = IF out.err.fail THEN hist
               ELSE [hist EXCEPT ![out.unit.ID].deletes = @ + 1]
    /\ UNCHANGED nextID

GetByIDs ==
    /\ last = Idle
    /\ \E ids \in IDLists, m1 \in FetchModes :
        LET out == UseCaseGetByIDs(store, ids, m1)
        IN /\ last' = Last("UseCase.GetByIDs", ids, NilUUID, None, <<>>, NoneString, out)
           /\ store' = out.store
           /\ UNCHANGED <<reqs, now, nextID, entityPkg, hist>>

GetAll ==
    /\ last = Idle
    /\ \E userID \in UserIDs, substring \in OptionSubstrings, m1 \in CallModes :
        LET out == UseCaseGetAll(store, userID, substring, m1)
        IN /\ last' = Last("UseCase.GetAll", NoIDs, NilUUID, Some(userID), <<>>, substring, out)
           /\ store' = out.store
           /\ UNCHANGED <<reqs, now, nextID, entityPkg, hist>>

Create ==
    /\ last = Idle
    /\ \E userID \in UserIDs, name \in Names, m1 \in CallModes :
        LET out == UseCaseCreate(store, entityPkg, userID, name, nextID, now, m1)
        IN /\ nextID <= MaxUnits
           /\ last' = Last("UseCase.Create", NoIDs, NilUUID, Some(userID), name, NoneString, out)
           /\ Created(out)
           /\ UNCHANGED <<reqs, now, entityPkg>>

Update ==
    /\ last = Idle
    /\ \E id \in UnitIDs, userID \in UserIDs, name \in Names,
       m1 \in FetchModes, m2 \in CallModes :
        LET out == UseCaseUpdate(store, entityPkg, id, userID, name, now, m1, m2)
        IN /\ last' = Last("UseCase.Update", NoIDs, id, Some(userID), name, NoneString, out)
           /\ Updated(out)
           /\ UNCHANGED <<reqs, now, entityPkg>>

Delete ==
    /\ last = Idle
    /\ \E id \in UnitIDs, m1 \in FetchModes, m2 \in CallModes :
        LET out == UseCaseDelete(store, id, now, m1, m2)
        IN /\ last' = Last("UseCase.Delete", NoIDs, id, None, <<>>, NoneString, out)
           /\ Deleted(out)
           /\ UNCHANGED <<reqs, now, entityPkg>>

SvcGetByID ==
    /\ last = Idle
    /\ \E id \in UnitIDs, m1 \in CallModes :
        LET out == ServiceGetByID(store, id, m1)
        IN /\ last' = Last("Service.GetByID", NoIDs, id, None, <<>>, NoneString, out)
           /\ store' = out.store
           /\ UNCHANGED <<reqs, now, nextID, entityPkg, hist>>

SvcGetAll ==
    /\ last = Idle
    /\ \E m1 \in CallModes :
        LET out == ServiceGetAll(store, m1)
        IN /\ last' = Last("Service.GetAll", NoIDs, NilUUID, None, <<>>, NoneString, out)
           /\ store' = out.store
           /\ UNCHANGED <<reqs, now, nextID, entityPkg, hist>>

SvcGetAllFiltered ==
    /\ last = Idle
    /\ \E substring \in Substrings, m1 \in CallModes :
        LET out == ServiceGetAllFiltered(store, substring, m1)
        IN /\ last' = Last("Service.GetAllFiltered", NoIDs, NilUUID, None, <<>>,
                           Some(substring), out)
           /\ store' = out.store
           /\ UNCHANGED <<reqs, now, nextID, entityPkg, hist>>

SvcCreate ==
    /\ last = Idle
    /\ \E userID \in OptionUserIDs, name \in Names, m1 \in CallModes :
        LET out == ServiceCreate(store, entityPkg, userID, name, nextID, now, m1)
        IN /\ nextID <= MaxUnits
           /\ last' = Last("Service.Create", NoIDs, NilUUID, userID, name, NoneString, out)
           /\ Created(out)
           /\ UNCHANGED <<reqs, now, entityPkg>>

SvcUpdate ==
    /\ last = Idle
    /\ \E id \in UnitIDs, userID \in UserIDs, name \in Names,
       m1 \in CallModes, m2 \in CallModes :
        LET out == ServiceUpdate(store, entityPkg, id, userID, name, now, m1, m2)
        IN /\ last' = Last("Service.Update", NoIDs, id, Some(userID), name, NoneString, out)
           /\ Updated(out)
           /\ UNCHANGED <<reqs, now, entityPkg>>

SvcDelete ==
    /\ last = Idle
    /\ \E id \in UnitIDs, m1 \in CallModes, m2 \in CallModes :
        LET out == ServiceDelete(store, id, now, m1, m2)
        IN /\ last' = Last("Service.Delete", NoIDs, id, None, <<>>, NoneString, out)
           /\ Deleted(out)
           /\ UNCHANGED <<reqs, now, entityPkg>>

\* A caller of the entity package alone: New, then Validate on its result.
Construct ==
    /\ last = Idle
    /\ \E pkg \in EntityPkgs, userID \in OptionUserIDs, name \in Names :
        LET unit == EntityNew(pkg, userID, name, nextID, now)
            out == Out(EntityValidate(pkg, unit), unit, NoUnits, <<>>, store)
        IN /\ last' = Last(IF pkg = "unit" THEN "unit.New" ELSE "unitEntity.New",
                           NoIDs, NilUUID, userID, name, NoneString, out)
           /\ UNCHANGED <<reqs, store, now, nextID, entityPkg, hist>>

\* The Unit values a caller of the entity package may hold: Unit is an
\* exported struct of exported fields, so any combination of field values.
PriorUnits ==
    [ID : {NilUUID, 1}, Version : -1..2, CreatedAt : 0..MaxTime, UpdatedAt : 0..MaxTime,
     DeletedAt : {None, Some(ZeroTime), Some(1)}, UserID : {None, Some(NilUUID), Some(1)},
     Name : {<<>>, <<"a">>}]

\* A caller of the entity package alone: Touch on a Unit it holds.  Touch
\* reads its receiver and the clock only, so the caller is taken before any
\* unit is stored.
TouchUnit ==
    /\ last = Idle
    /\ store = <<>>
    /\ \E u \in PriorUnits :
        LET out == Out(NilErr, Touch(u, now), NoUnits, <<>>, store)
        IN /\ last' = [Last("unit.Touch", NoIDs, NilUUID, None, <<>>, NoneString, out)
                          EXCEPT !.prior = u]
           /\ UNCHANGED <<reqs, store, now, nextID, entityPkg, hist>>

\* A caller of the entity package alone: Validate on a Unit it holds.
\* Validate reads its receiver only.
ValidateUnit ==
    /\ last = Idle
    /\ store = <<>>
    /\ \E pkg \in EntityPkgs, u \in PriorUnits :
        LET out == Out(EntityValidate(pkg, u), u, NoUnits, <<>>, store)
        IN /\ last' = [Last(IF pkg = "unit" THEN "unit.Validate" ELSE "unitEntity.Validate",
                             NoIDs, NilUUID, None, <<>>, NoneString, out)
                          EXCEPT !.prior = u]
           /\ UNCHANGED <<reqs, store, now, nextID, entityPkg, hist>>

\* The caller reads the result of its call; the next call can begin.
Return ==
    /\ last # Idle
    /\ last' = Idle
    /\ UNCHANGED <<reqs, store, now, nextID, entityPkg, hist>>

Next ==
    \/ Tick
    \/ GetByIDs
    \/ GetAll
    \/ Create
    \/ Update
    \/ Delete
    \/ SvcGetByID
    \/ SvcGetAll
    \/ SvcGetAllFiltered
    \/ SvcCreate
    \/ SvcUpdate
    \/ SvcDelete
    \/ Construct
    \/ TouchUnit
    \/ ValidateUnit
    \/ Return

Spec == Init /\ [][Next]_vars

\* ---------------------------------------------------- overlapping requests
\* Each request runs its handler on its own goroutine; the handlers share
\* nothing but the repository, so two requests interleave at the repository
\* calls.  Update and Delete make two calls, hence two steps: the fetch
\* with everything up to the write call, and the write with the return.

\* Update up to its repository Update call: the handler with the write left
\* to succeed on a private copy of the table; two recorded calls mean the
\* checks passed, and calls[2].unit is the unit about to be written.
UpdateUpToWrite(op, st, pkg, id, userID, name, t, m1) ==
    IF op = "UseCase.Update"
    THEN UseCaseUpdate(st, pkg, id, userID, name, t, m1, "ok")
    ELSE ServiceUpdate(st, pkg, id, userID, name, t, m1, "ok")

\* Delete up to its repository Update call.
DeleteUpToWrite(op, st, id, t, m1) ==
    IF op = "UseCase.Delete"
    THEN UseCaseDelete(st, id, t, m1, "ok")
    ELSE ServiceDelete(st, id, t, m1, "ok")

\* A write that refuses a unit whose stored version is not the one it was
\* derived from (an optimistic lock on the version).
UpdateWriteChecked(op, st, unit, m2) ==
    IF st[unit.ID].Version # unit.Version - 1
    THEN Out(Errorf("version conflict"), ZeroUnit, NoUnits, <<>>, st)
    ELSE LET w == RepoUpdate(st, unit, m2)
             c2 == Call("Update", NoIDs, None, NoneString, unit, NoUnits, w.err)
         IN IF w.err.fail
            THEN Out(IF op = "UseCase.Update" THEN ErrorfW("update unit", w.err) ELSE w.err,
                     ZeroUnit, NoUnits, <<c2>>, w.store)
            ELSE Out(NilErr, unit, NoUnits, <<c2>>, w.store)

\* Update from its repository Update call to its return, on the table as it
\* is when the call arrives.
UpdateWrite(op, st, unit, m2) ==
    LET w == RepoUpdate(st, unit, m2)
        c2 == Call("Update", NoIDs, None, NoneString, unit, NoUnits, w.err)
    IN IF w.err.fail
       THEN Out(IF op = "UseCase.Update" THEN ErrorfW("update unit", w.err) ELSE w.err,
                ZeroUnit, NoUnits, <<c2>>, w.store)
       ELSE Out(NilErr, unit, NoUnits, <<c2>>, w.store)

\* Delete from its repository Update call to its return.
DeleteWrite(op, st, unit, m2) ==
    LET w == RepoUpdate(st, unit, m2)
        c2 == Call("Update", NoIDs, None, NoneString, unit, NoUnits, w.err)
    IN IF w.err.fail
       THEN Out(IF op = "UseCase.Delete" THEN ErrorfW("update unit for delete", w.err)
                ELSE w.err,
                ZeroUnit, NoUnits, <<c2>>, w.store)
       ELSE Out(NilErr, unit, NoUnits, <<c2>>, w.store)

\* The request after the first part of its handler: suspended in its write
\* call when the handler got that far, returned otherwise.
Fetched(op, id, userID, name, out) ==
    IF Len(out.calls) = 2
    THEN [op |-> op, pc |-> "fetched", id |-> id, userID |-> userID, name |-> name,
          fetched |-> out.calls[1].units[1], unit |-> out.calls[2].unit,
          err |-> NilErr, werr |-> NilErr, rank |-> 0]
    ELSE [op |-> op, pc |-> "done", id |-> id, userID |-> userID, name |-> name,
          fetched |-> IF ~out.calls[1].err.fail /\ Len(out.calls[1].units) = 1
                      THEN out.calls[1].units[1] ELSE ZeroUnit,
          unit |-> out.unit, err |-> out.err, werr |-> NilErr, rank |-> 0]

\* The request after its write call returned.
Written(req, out, rank) ==
    [req EXCEPT !.pc = "done", !.unit = out.unit, !.err = out.err,
                !.werr = IF out.calls = <<>> THEN NilErr ELSE out.calls[1].err,
                !.rank = rank]

\* The writes the requests have made so far.
WritesSoFar == Cardinality({r \in ReqIDs : reqs[r].rank > 0})

\* A request for Update arrives and runs up to its write call.
BeginUpdate(r) ==
    /\ last = Idle
    /\ reqs[r].pc = "new"
    /\ reqs[r].op = "none"
    /\ \E op \in {"UseCase.Update", "Service.Update"}, id \in UnitIDs,
          userID \in UserIDs, name \in Names, m1 \in FetchModes :
        LET out == UpdateUpToWrite(op, store, entityPkg, id, userID, name, now, m1)
        IN /\ op = "Service.Update" => m1 \in CallModes
           /\ reqs' = [reqs EXCEPT ![r] = Fetched(op, id, Some(userID), name, out)]
    /\ UNCHANGED <<store, now, nextID, entityPkg, hist, last>>

\* The repository executes the Update call of a suspended Update request and
\* the handler returns.
FinishUpdate(r) ==
    /\ reqs[r].pc = "fetched"
    /\ reqs[r].op \in {"UseCase.Update", "Service.Update"}
    /\ \E m2 \in CallModes :
        LET out == UpdateWrite(reqs[r].op, store, reqs[r].unit, m2)
        IN /\ store' = out.store
           /\ reqs' = [reqs EXCEPT ![r] = Written(reqs[r], out, WritesSoFar + 1)]
           /\ hist' = IF out.err.fail THEN hist
                      ELSE [hist EXCEPT ![reqs[r].id].updates = @ + 1]
    /\ UNCHANGED <<now, nextID, entityPkg, last>>

\* A request for Delete arrives and runs up to its write call.
BeginDelete(r) ==
    /\ last = Idle
    /\ reqs[r].pc = "new"
    /\ reqs[r].op = "none"
    /\ \E op \in {"UseCase.Delete", "Service.Delete"}, id \in UnitIDs, m1 \in FetchModes :
        LET out == DeleteUpToWrite(op, store, id, now, m1)
        IN /\ op = "Service.Delete" => m1 \in CallModes
           /\ reqs' = [reqs EXCEPT ![r] = Fetched(op, id, None, <<>>, out)]
    /\ UNCHANGED <<store, now, nextID, entityPkg, hist, last>>

\* The repository executes the Update call of a suspended Delete request and
\* the handler returns.
FinishDelete(r) ==
    /\ reqs[r].pc = "fetched"
    /\ reqs[r].op \in {"UseCase.Delete", "Service.Delete"}
    /\ \E m2 \in CallModes :
        LET out == DeleteWrite(reqs[r].op, store, reqs[r].unit, m2)
        IN /\ store' = out.store
           /\ reqs' = [reqs EXCEPT ![r] = Written(reqs[r], out, WritesSoFar + 1)]
           /\ hist' = IF out.err.fail THEN hist
                      ELSE [hist EXCEPT ![reqs[r].id].deletes = @ + 1]
    /\ UNCHANGED <<now, nextID, entityPkg, last>>

\* Requests overlap with one another; Create makes one repository call, so
\* it is a single step here as well.
NextOverlap ==
    \/ Tick
    \/ Create
    \/ Return
    \/ \E r \in ReqIDs : BeginUpdate(r)
    \/ \E r \in ReqIDs : FinishUpdate(r)
    \/ \E r \in ReqIDs : BeginDelete(r)
    \/ \E r \in ReqIDs : FinishDelete(r)

SpecOverlap == Init /\ [][NextOverlap]_vars

\* ================================================================ claims
\* errors.Is(err, target), as a caller tests the error it was returned.
Is(err, target) == err.fail /\ target.chain \subseteq err.chain

UpdateOps == {"UseCase.Update", "Service.Update"}
DeleteOps == {"UseCase.Delete", "Service.Delete"}
CreateOps == {"UseCase.Create", "Service.Create"}

\* What the last call fetched by id: the answer of its first repository call.
FetchedOne ==
    /\ Len(last.calls) >= 1
    /\ last.calls[1].method \in {"GetByIDs", "GetByID"}
    /\ ~last.calls[1].err.fail
    /\ Len(last.calls[1].units) = 1
FetchedUnit == last.calls[1].units[1]

MismatchOf(op) == IF op = "UseCase.Update" THEN ErrUserIDMismatch ELSE ServiceErrUserIDMismatch
MissingOf(op) == IF op = "UseCase.Update" THEN ErrUserIDMissing ELSE ServiceErrUserIDMissing

IsWrite(c) == c.method \in {"Create", "Update"}
NoWrite(calls) == \A i \in 1..Len(calls) : ~IsWrite(calls[i])

\* The lookup that expected exactly one unit and got none or several.
IsLookupErr(err) ==
    /\ err.fail
    /\ err.msg \in {<<"get unit by id for update: expected 1 unit">>,
                    <<"get unit by id for delete: expected 1 unit">>}

\* C1: for every fetched unit whose owner is present and every requesting
\* user id, Update (of UseCase and of Service) returns exactly the
\* UserIDMismatch error and no unit when the requesting id differs from the
\* owner; when they are equal it returns no ownership error, and with a
\* non-empty new name it reaches repository Update with the touched, renamed
\* unit and succeeds, returning and storing that unit, unless that repository
\* call itself fails.
C1_UpdateOwnership ==
    (last.op \in UpdateOps /\ FetchedOne /\ FetchedUnit.UserID.isPresent) =>
        LET u == FetchedUnit
            want == [u EXCEPT !.Version = u.Version + 1, !.UpdatedAt = now,
                              !.Name = last.name]
        IN /\ u.UserID.value # last.userID.value =>
                /\ last.err = MismatchOf(last.op)
                /\ last.unit = ZeroUnit
           /\ u.UserID.value = last.userID.value =>
                /\ ~Is(last.err, MismatchOf(last.op))
                /\ ~Is(last.err, MissingOf(last.op))
                /\ last.name # <<>> =>
                     /\ Len(last.calls) = 2
                     /\ last.calls[2].method = "Update"
                     /\ last.calls[2].unit = want
                     /\ last.calls[2].err.fail => Is(last.err, RepoErr)
                     /\ ~last.calls[2].err.fail =>
                          /\ ~last.err.fail
                          /\ last.unit = want
                          /\ store[u.ID] = want

\* A non-owner is refused on a unit its owner has already updated.
C1_Witness ==
    /\ last.op = "UseCase.Update"
    /\ last.err = ErrUserIDMismatch
    /\ FetchedOne
    /\ FetchedUnit.UserID.value # NilUUID
    /\ last.userID.value # NilUUID
    /\ hist[last.id].updates >= 1

\* C2: Update (of UseCase and of Service) returns exactly the UserIDMissing
\* error and no unit whenever the fetched unit has no owner, for any
\* requesting user id and any new name, makes no repository call after the
\* fetch and leaves the stored unit as fetched; a stored unit with no owner
\* has never been updated.
C2_UpdateOwnerMissing ==
    /\ (last.op \in UpdateOps /\ FetchedOne /\ ~FetchedUnit.UserID.isPresent) =>
          /\ last.err = MissingOf(last.op)
          /\ last.unit = ZeroUnit
          /\ Len(last.calls) = 1
          /\ store[FetchedUnit.ID] = FetchedUnit
    /\ \A id \in DOMAIN store :
          ~store[id].UserID.isPresent =>
              hist[id].updates = 0 /\ store[id].Version = 1

C2_Witness ==
    /\ last.op = "UseCase.Update"
    /\ FetchedOne
    /\ ~FetchedUnit.UserID.isPresent
    /\ last.name # <<>>
    /\ last.userID.value # NilUUID

\* The failures of Create, Update and Delete that precede every write.
FailsBeforeWrite(l) ==
    /\ l.op \in CreateOps \cup UpdateOps \cup DeleteOps
    /\ \/ Is(l.err, ErrBadParams)
       \/ Is(l.err, ErrUserIDMissing)
       \/ Is(l.err, ErrUserIDMismatch)
       \/ Is(l.err, ServiceErrUserIDMissing)
       \/ Is(l.err, ServiceErrUserIDMismatch)
       \/ IsLookupErr(l.err)

\* C3: a Create, Update or Delete that fails with BadParams, UserIDMissing,
\* UserIDMismatch or the expected-one-unit lookup error has issued no
\* repository Create or Update call, and the table after the call equals the
\* table before it.
C3_FailureLeavesStore ==
    [][(last = Idle /\ FailsBeforeWrite(last')) =>
          (store' = store /\ NoWrite(last'.calls) /\ hist' = hist)]_vars

\* Update by a non-owner, with a valid new name, on a stored unit.
C3_Witness ==
    /\ last.op = "UseCase.Update"
    /\ last.err = ErrUserIDMismatch
    /\ last.name # <<>>
    /\ last.id \in DOMAIN store
    /\ store[last.id].Name # last.name

\* C4: Deleted is terminal: a stored unit whose deletedAt is present is still
\* stored with deletedAt present after every complete operation.
C4_DeletedIsTerminal ==
    [][\A id \in DOMAIN store :
          store[id].DeletedAt.isPresent =>
              (id \in DOMAIN store' /\ store'[id].DeletedAt.isPresent)]_vars

\* A deleted unit is updated by its owner, successfully.
C4_Witness ==
    /\ last.op \in UpdateOps
    /\ ~last.err.fail
    /\ FetchedOne
    /\ FetchedUnit.DeletedAt.isPresent
    /\ store[last.id].Version = FetchedUnit.Version + 1

\* C5 as stated: the stored version of every unit is 1 plus the number of
\* mutations applied to it since creation, counting every successful Update
\* and every successful Delete.
C5_VersionCountsMutations ==
    \A id \in DOMAIN store :
        store[id].Version = 1 + hist[id].updates + hist[id].deletes

\* C5 as amended: the version of a unit starts at 1, every successful Update
\* adds exactly 1 to it and Delete leaves it as it is, so the stored version
\* is always 1 plus the number of successful Updates since creation, and no
\* step decreases it.
C5_VersionCountsUpdates ==
    [][/\ \A id \in DOMAIN store' :
             store'[id].Version = 1 + hist'[id].updates
       /\ \A id \in DOMAIN store :
             /\ id \in DOMAIN store'
             /\ store'[id].Version >= store[id].Version]_vars

\* A unit that has been updated and deleted.
C5_Witness ==
    \E id \in DOMAIN store :
        /\ hist[id].updates >= 1
        /\ hist[id].deletes >= 1
        /\ store[id].Version = 1 + hist[id].updates

ConstructOps == {"unit.New", "unitEntity.New"}

\* C6 as stated: every Unit the constructor produces, of either entity
\* package, for any owner and any name, has version 1, createdAt equal to
\* updatedAt and no deletedAt, and Validate succeeds on it whenever the name
\* is not empty.
C6_ConstructedUnit ==
    last.op \in ConstructOps =>
        /\ last.unit.Version = 1
        /\ last.unit.CreatedAt = last.unit.UpdatedAt
        /\ ~last.unit.DeletedAt.isPresent
        /\ last.name # <<>> => ~last.err.fail

\* C6 as amended: the same, with Validate succeeding whenever the name is
\* not empty and the owner is absent or is not the nil identifier.
C6_ConstructedUnitOwned ==
    last.op \in ConstructOps =>
        /\ last.unit.Version = 1
        /\ last.unit.CreatedAt = last.unit.UpdatedAt
        /\ ~last.unit.DeletedAt.isPresent
        /\ last.unit.UserID = last.userID
        /\ last.unit.Name = last.name
        /\ (last.name # <<>> /\ last.userID # Some(NilUUID)) => ~last.err.fail

C6_Witness ==
    /\ last.op = "unitEntity.New"
    /\ ~last.userID.isPresent
    /\ last.name # <<>>
    /\ ~last.err.fail
    /\ now > 1

\* The contract of Create, for the operations named.
CreateContract(ops) ==
    last.op \in ops =>
        /\ last.name = <<>> =>
              /\ Is(last.err, ErrBadParams)
              /\ "Name:required" \in last.err.chain
              /\ last.unit = ZeroUnit
              /\ last.calls = <<>>
        /\ (last.name # <<>> /\ last.userID.isPresent /\ last.userID.value # NilUUID) =>
              /\ Len(last.calls) = 1
              /\ last.calls[1].method = "Create"
              /\ last.err.fail = last.calls[1].err.fail
              /\ last.err.fail => last.unit = ZeroUnit
              /\ ~last.err.fail =>
                    /\ last.unit.Version = 1
                    /\ last.unit.Name = last.name
                    /\ last.unit.UserID = last.userID
                    /\ last.calls[1].unit = last.unit
                    /\ store[last.unit.ID] = last.unit

\* C7: Create (of UseCase and of Service) with an empty name fails with
\* BadParams wrapping the name-required violation, returns no unit and never
\* calls repository Create; with a non-nil owner and a non-empty name it
\* calls repository Create once, and when it returns a unit, that unit has
\* version 1, the given name and the owner present, is the unit it passed to
\* the repository and is the unit stored under its id.
C7_Create == CreateContract(CreateOps)

\* The same contract for UseCase.Create alone.
C7_UseCaseCreate == CreateContract({"UseCase.Create"})

\* C8: GetByIDs with an empty id list fails with BadParams and issues no
\* repository call; with a non-empty list it issues exactly one repository
\* GetByIDs call, with the same ids, and returns that call's units unchanged
\* (or, when the call fails, an error wrapping the call's error).
C8_GetByIDs ==
    last.op = "UseCase.GetByIDs" =>
        IF last.ids = <<>>
        THEN /\ Is(last.err, ErrBadParams)
             /\ last.calls = <<>>
             /\ last.units = <<>>
        ELSE /\ Len(last.calls) = 1
             /\ last.calls[1].method = "GetByIDs"
             /\ last.calls[1].ids = last.ids
             /\ last.calls[1].err.fail =>
                   (Is(last.err, RepoErr) /\ last.units = <<>>)
             /\ ~last.calls[1].err.fail =>
                   (~last.err.fail /\ last.units = last.calls[1].units)

\* The empty list is refused while the table holds a unit.
C8_Witness ==
    /\ last.op = "UseCase.GetByIDs"
    /\ last.ids = <<>>
    /\ last.err.fail
    /\ DOMAIN store # {}

\* C9: GetAll with a present-but-empty substring filter fails with BadParams
\* and issues no repository call; with an absent or non-empty filter it
\* issues exactly one repository GetAll call, with the same owner id and the
\* same filter, and returns that call's units (or an error wrapping the
\* call's error).
C9_GetAll ==
    last.op = "UseCase.GetAll" =>
        IF last.substring = Some(<<>>)
        THEN /\ Is(last.err, ErrBadParams)
             /\ last.calls = <<>>
             /\ last.units = <<>>
        ELSE /\ Len(last.calls) = 1
             /\ last.calls[1].method = "GetAll"
             /\ last.calls[1].userID = last.userID
             /\ last.calls[1].substring = last.substring
             /\ last.calls[1].err.fail =>
                   (Is(last.err, RepoErr) /\ last.units = <<>>)
             /\ ~last.calls[1].err.fail =>
                   (~last.err.fail /\ last.units = last.calls[1].units)

\* The empty filter is refused for a user who owns a stored unit.
C9_Witness ==
    /\ last.op = "UseCase.GetAll"
    /\ last.substring = Some(<<>>)
    /\ last.err.fail
    /\ \E id \in DOMAIN store : store[id].UserID = last.userID

\* C10: a Delete (of UseCase and of Service) that fetched one unit calls
\* repository Update with that unit marked deleted, whatever its owner, and
\* fails only if that call fails; a successful Delete returns and stores a
\* unit whose deletedAt is present, non-zero and equal to its updatedAt, with
\* the version and every other field of the fetched unit; no Delete fails
\* with an ownership error.
C10_Delete ==
    last.op \in DeleteOps =>
        /\ ~Is(last.err, ErrUserIDMissing) /\ ~Is(last.err, ErrUserIDMismatch)
        /\ ~Is(last.err, ServiceErrUserIDMissing)
        /\ ~Is(last.err, ServiceErrUserIDMismatch)
        /\ FetchedOne =>
              /\ Len(last.calls) = 2
              /\ last.calls[2].method = "Update"
              /\ last.err.fail = last.calls[2].err.fail
        /\ ~last.err.fail =>
              /\ FetchedOne
              /\ last.unit.DeletedAt.isPresent
              /\ last.unit.DeletedAt.value # ZeroTime
              /\ last.unit.DeletedAt.value = last.unit.UpdatedAt
              /\ last.unit.Version = FetchedUnit.Version
              /\ last.unit = [FetchedUnit EXCEPT !.DeletedAt = Some(now),
                                                 !.UpdatedAt = now]
              /\ last.calls[2].unit = last.unit
              /\ store[last.id] = last.unit

\* A unit with no owner, updated-at in the past, is deleted.
C10_Witness ==
    /\ last.op = "UseCase.Delete"
    /\ ~last.err.fail
    /\ ~last.unit.UserID.isPresent
    /\ FetchedUnit.UpdatedAt < now

\* What a successful Update returns and stores: the fetched unit at version
\* + 1 with the new name, version 2 when it is the first mutation.
SuccessfulUpdateTouches ==
    (last.op \in UpdateOps /\ ~last.err.fail) =>
        /\ FetchedOne
        /\ last.unit.Version = FetchedUnit.Version + 1
        /\ last.unit.Name = last.name
        /\ last.unit.UpdatedAt >= FetchedUnit.UpdatedAt
        /\ store[last.id] = last.unit
        /\ hist[last.id].updates = 1 /\ hist[last.id].deletes = 0 =>
              last.unit.Version = 2

C12_Immutable ==
    [][\A id \in DOMAIN store :
          /\ store[id].ID = id
          /\ id \in DOMAIN store'
          /\ store'[id].ID = store[id].ID
          /\ store'[id].CreatedAt = store[id].CreatedAt
          /\ store'[id].UserID = store[id].UserID
          /\ last'.op \in UpdateOps => store'[id].DeletedAt = store[id].DeletedAt
          /\ last'.op \in DeleteOps => store'[id].Name = store[id].Name
          /\ (last'.op \in UpdateOps \cup DeleteOps /\ ~last'.err.fail
                /\ last'.id = id) =>
                /\ last'.unit.ID = id
                /\ last'.unit.CreatedAt = store[id].CreatedAt
                /\ last'.unit.UserID = store[id].UserID]_vars

\* A unit that was renamed and then deleted, both later than its creation.
C12_Witness ==
    \E id \in DOMAIN store :
        /\ hist[id].updates >= 1
        /\ hist[id].deletes >= 1
        /\ store[id].UserID.isPresent
        /\ store[id].DeletedAt.isPresent
        /\ store[id].CreatedAt < store[id].UpdatedAt
        /\ last.op \in DeleteOps /\ ~last.err.fail

\* The operations of the two service layers (the entity package's own
\* functions make no repository call).
ServiceOps ==
    {"UseCase.GetByIDs", "UseCase.GetAll", "UseCase.Create", "UseCase.Update",
     "UseCase.Delete", "Service.GetByID", "Service.GetAll", "Service.GetAllFiltered",
     "Service.Create", "Service.Update", "Service.Delete"}

\* C13: whenever a repository call made by an operation returns an error,
\* that call is the operation's last repository call (no retry, nothing
\* after it), and the operation returns an error whose chain carries the
\* repository's error, the zero unit and no list of units.
C13_RepositoryError ==
    last.op \in ServiceOps =>
        \A i \in 1..Len(last.calls) :
            last.calls[i].err.fail =>
                /\ i = Len(last.calls)
                /\ last.err.fail
                /\ Is(last.err, last.calls[i].err)
                /\ last.unit = ZeroUnit
                /\ last.units = NoUnits

\* The repository fails the write of an Update or Delete whose fetch succeeded.
C13_Witness ==
    /\ last.op \in UpdateOps \cup DeleteOps
    /\ Len(last.calls) = 2
    /\ ~last.calls[1].err.fail
    /\ last.calls[2].err.fail
    /\ Is(last.err, RepoErr)

\* The by-id fetch of UseCase.Update or UseCase.Delete succeeded with n units.
FetchedCount(n) ==
    /\ last.op \in {"UseCase.Update", "UseCase.Delete"}
    /\ Len(last.calls) >= 1
    /\ last.calls[1].method = "GetByIDs"
    /\ ~last.calls[1].err.fail
    /\ Len(last.calls[1].units) = n

\* C14: in UseCase.Update and UseCase.Delete, when the by-id fetch succeeds
\* with zero units or with more than one, the operation fails with an error
\* that is none of BadParams, UserIDMissing, UserIDMismatch (nor a repository
\* error), returns the zero unit, and the fetch is its only repository call.
C14_FetchCount ==
    (\E n \in 0..(MaxUnits + 1) : n # 1 /\ FetchedCount(n)) =>
        /\ last.err.fail
        /\ ~Is(last.err, ErrBadParams)
        /\ ~Is(last.err, ErrUserIDMissing)
        /\ ~Is(last.err, ErrUserIDMismatch)
        /\ ~Is(last.err, RepoErr)
        /\ IsLookupErr(last.err)
        /\ last.unit = ZeroUnit
        /\ Len(last.calls) = 1
        /\ NoWrite(last.calls)

\* The repository answers the fetch of an existing unit with two rows.
C14_Witness ==
    /\ last.op \in {"UseCase.Update", "UseCase.Delete"}
    /\ last.id \in DOMAIN store
    /\ FetchedCount(2)
    /\ IsLookupErr(last.err)

\* The other case: the fetch finds no unit.
C14_WitnessNone ==
    /\ last.op = "UseCase.Update"
    /\ FetchedCount(0)
    /\ IsLookupErr(last.err)

\* The positions of the repository writes, and of the by-id fetches, in the
\* repository calls of one operation.
Writes(calls) == {i \in 1..Len(calls) : IsWrite(calls[i])}
Fetches(calls) == {i \in 1..Len(calls) : calls[i].method \in {"GetByIDs", "GetByID"}}
ReadOps ==
    {"UseCase.GetByIDs", "UseCase.GetAll", "Service.GetByID", "Service.GetAll",
     "Service.GetAllFiltered"}

\* C15: every operation makes at most one repository write, and its step
\* changes at most one stored unit, the one that write carries; an Update
\* or Delete makes exactly one by-id fetch, as its first call, and its write
\* (a repository Update) comes after it; a Create's only call is its write;
\* the read operations make no write and leave the table as it was.
C15_OneWrite ==
    [][last'.op \in ServiceOps =>
          LET calls == last'.calls
              changed == {id \in DOMAIN store' :
                             id \notin DOMAIN store \/ store'[id] # store[id]}
          IN /\ Cardinality(Writes(calls)) <= 1
             /\ Cardinality(changed) <= 1
             /\ DOMAIN store \subseteq DOMAIN store'
             /\ \A id \in changed :
                   \E i \in Writes(calls) : calls[i].unit = store'[id]
             /\ last'.op \in UpdateOps \cup DeleteOps =>
                   /\ Fetches(calls) = {1}
                   /\ Writes(calls) \subseteq {2}
                   /\ Len(calls) <= 2
                   /\ \A i \in Writes(calls) : calls[i].method = "Update"
             /\ last'.op \in CreateOps =>
                   /\ Len(calls) <= 1
                   /\ \A i \in 1..Len(calls) : calls[i].method = "Create"
             /\ last'.op \in ReadOps =>
                   /\ NoWrite(calls)
                   /\ Len(calls) <= 1
                   /\ store' = store]_vars

\* A Delete that fetched its unit and then wrote it.
C15_Witness ==
    /\ last.op \in DeleteOps
    /\ Fetches(last.calls) = {1}
    /\ Writes(last.calls) = {2}
    /\ ~last.err.fail
    /\ store[last.id] = last.calls[2].unit

\* The five entity invariants of a Unit value, as the specification lists
\* them.
FiveInvariants(u) ==
    /\ u.ID # NilUUID
    /\ u.CreatedAt # ZeroTime
    /\ u.UpdatedAt # ZeroTime
    /\ u.Name # <<>>
    /\ u.Version >= 1
    /\ u.UpdatedAt >= u.CreatedAt
    /\ u.DeletedAt.isPresent => u.DeletedAt.value # ZeroTime
    /\ u.UserID.isPresent => u.UserID.value # NilUUID

\* C16: every Unit an operation passes to repository Create or repository
\* Update satisfies all five entity invariants at the moment of the call.
C16_WritesValidated ==
    last.op \in ServiceOps =>
        \A i \in Writes(last.calls) : FiveInvariants(last.calls[i].unit)

\* The same with the entity package whose Validate checks the two optional
\* fields itself (package unitEntity).
C16_WritesValidatedStrict ==
    (last.op \in ServiceOps /\ entityPkg = "unitEntity") =>
        \A i \in Writes(last.calls) : FiveInvariants(last.calls[i].unit)

\* C17: for every Unit value Validate succeeds if and only if the value
\* satisfies the five entity invariants, and the unit is unchanged afterwards.
C17_Validate ==
    last.op \in {"unit.Validate", "unitEntity.Validate"} =>
        /\ ~last.err.fail <=> FiveInvariants(last.prior)
        /\ last.unit = last.prior

\* The same for the Validate of package unitEntity alone.
C17_unitEntityValidate ==
    last.op = "unitEntity.Validate" =>
        /\ ~last.err.fail <=> FiveInvariants(last.prior)
        /\ last.unit = last.prior

\* C18: UseCase.Update applies its checks in a fixed order and the first
\* failing one determines the error: repository fetch error, then result
\* count # 1, then UserIDMissing, then UserIDMismatch, then validation of the
\* touched and renamed unit (BadParams), then repository update error.  Until
\* both ownership checks passed nothing of the fetched unit has changed: the
\* stored unit is the fetched one and no write was issued.
C18_UpdateOrder ==
    last.op = "UseCase.Update" =>
        LET c == last.calls
        IN /\ Len(c) >= 1
           /\ c[1].method = "GetByIDs"
           /\ IF c[1].err.fail
              THEN /\ Is(last.err, c[1].err)
                   /\ Len(c) = 1
              ELSE IF Len(c[1].units) # 1
              THEN /\ IsLookupErr(last.err)
                   /\ Len(c) = 1
              ELSE LET f == c[1].units[1]
                       want == [f EXCEPT !.Version = f.Version + 1, !.UpdatedAt = now,
                                         !.Name = last.name]
                   IN IF ~f.UserID.isPresent
                      THEN /\ last.err = ErrUserIDMissing
                           /\ Len(c) = 1
                           /\ store[f.ID] = f
                      ELSE IF f.UserID # last.userID
                      THEN /\ last.err = ErrUserIDMismatch
                           /\ Len(c) = 1
                           /\ store[f.ID] = f
                      ELSE IF EntityValidate(entityPkg, want).fail
                      THEN /\ Is(last.err, ErrBadParams)
                           /\ ~Is(last.err, ErrUserIDMissing)
                           /\ ~Is(last.err, ErrUserIDMismatch)
                           /\ Len(c) = 1
                      ELSE /\ Len(c) = 2
                           /\ c[2].method = "Update"
                           /\ c[2].unit = want
                           /\ IF c[2].err.fail
                              THEN /\ Is(last.err, c[2].err)
                                   /\ ~Is(last.err, ErrBadParams)
                              ELSE /\ ~last.err.fail
                                   /\ last.unit = want

\* Update by a non-owner with an empty new name: UserIDMismatch, not BadParams.
C18_Witness ==
    /\ last.op = "UseCase.Update"
    /\ FetchedOne
    /\ FetchedUnit.UserID.isPresent
    /\ FetchedUnit.UserID # last.userID
    /\ last.name = <<>>
    /\ last.err = ErrUserIDMismatch
    /\ ~Is(last.err, ErrBadParams)

\* Request r is an Update that reached its write call, and the repository
\* did not fail that call.
WroteUpdate(rq) ==
    /\ rq.op \in UpdateOps
    /\ rq.pc = "done"
    /\ rq.rank > 0
    /\ ~rq.werr.fail

\* C19: the version read is never compared with the stored version before
\* writing.  When an Update request q has fetched a unit and written it, and
\* an Update request r that fetched the same state of the same unit (so both
\* fetched before either wrote) makes its write next, then r succeeds as q
\* did unless the repository fails the call, r's unit replaces the stored
\* one whatever it had become, and the stored version is the fetched
\* version + 1, not + 2.
C19_LostUpdate ==
    [][\A r \in ReqIDs, q \in ReqIDs :
          (/\ r # q
           /\ reqs[r].op \in UpdateOps
           /\ reqs[r].pc = "fetched"
           /\ reqs'[r].pc = "done"
           /\ ~reqs'[r].werr.fail
           /\ WroteUpdate(reqs[q])
           /\ reqs[q].id = reqs[r].id
           /\ reqs[q].fetched = reqs[r].fetched) =>
              /\ ~reqs[q].err.fail
              /\ ~reqs'[r].err.fail
              /\ reqs'[r].userID = reqs[r].fetched.UserID
              /\ reqs'[r].unit.Version = reqs[r].fetched.Version + 1
              /\ reqs'[r].unit.Name = reqs[r].name
              /\ reqs[q].unit.Version = reqs[r].fetched.Version + 1
              /\ store'[reqs[r].id] = reqs'[r].unit
              /\ store'[reqs[r].id].Version = reqs[r].fetched.Version + 1]_vars

\* Two Updates by the owner fetched the same unit, both wrote and both
\* succeeded; the table holds the later one's name at the fetched version + 1.
C19_Witness ==
    \E r \in ReqIDs, q \in ReqIDs :
        /\ r # q
        /\ WroteUpdate(reqs[r]) /\ WroteUpdate(reqs[q])
        /\ reqs[r].id = reqs[q].id
        /\ reqs[r].fetched = reqs[q].fetched
        /\ reqs[q].rank < reqs[r].rank
        /\ ~reqs[r].err.fail /\ ~reqs[q].err.fail
        /\ reqs[r].name # reqs[q].name
        /\ store[reqs[r].id] = reqs[r].unit
        /\ store[reqs[r].id].Version = reqs[r].fetched.Version + 1

\* C20: once a Delete request has completed successfully, the table holds
\* its unit with deletedAt present, whatever requests overlap with it.
C20_DeletedStaysTerminal ==
    \A r \in ReqIDs :
        (reqs[r].op \in DeleteOps /\ reqs[r].pc = "done" /\ ~reqs[r].err.fail) =>
            store[reqs[r].id].DeletedAt.isPresent

====
